---- MODULE Spec2Model ----
(***************************************************************************)
(* Model of game.py: a tile-based platformer.  An Actor moves against a    *)
(* wall grid in whole pixels, carrying a sub-pixel remainder per axis; the *)
(* Player adds velocity, variable gravity and a jump; Game.scan_map finds  *)
(* the spawn tile.                                                         *)
(*                                                                         *)
(* Real-valued quantities (amounts, remainders, velocities) are held as    *)
(* integers in units of 1/Scale pixel.  Additions and the two gravity      *)
(* multiplications are exact in this unit; the amounts offered to the      *)
(* bare move calls are multiples of 1/4 pixel, for which the program's     *)
(* double arithmetic is exact as well, or multiples of 1/5 pixel, whose    *)
(* sums in doubles are off by less than 10^-15 and round the same way.     *)
(* Positions are whole pixels.                                             *)
(***************************************************************************)
EXTENDS Integers, Sequences, FiniteSets, TLC

\* fixed-point unit: Scale units make one pixel.
Scale == 10 * 100

\* ---- program constants (game.py:12-28) ----
GRAVITY == (2 * Scale) \div 10
JUMP_POWER == 2 * Scale
W == 128
H == 128
TILE_SIZE == 8
EMPTY_TILE == 0
PLAYER_TILE == 1
WALL_TILES == {2, 3, 4, 5}

\* ---- bounds of the model ----
\* the modelled window of the tilemap is MapW x MapH tiles.
MapW == 5
MapH == 4

\* Player.update runs for at most MaxFrames frames.
MaxFrames == 8

\* bare apply_gravity calls are followed until vy reaches MaxVy pixels a frame.
MaxVy == 3

\* a sequence of move calls without a collision is followed for MaxRun calls.
MaxRun == 5

Cols == 0 .. (MapW - 1)
Rows == 0 .. (MapH - 1)
Cells == Cols \X Rows
Interior == { c \in Cells : c[1] \in 1 .. (MapW - 2) /\ c[2] \in 1 .. (MapH - 2) }

VARIABLES
    tilemap,        \* pyxel.tilemap(0): cell -> tile id
    x, y,           \* Actor.x, Actor.y
    x_remainder,    \* Actor.x_remainder
    y_remainder,    \* Actor.y_remainder
    vx, vy,         \* Player.vx, Player.vy
    key_up,         \* whether KEY_UP was held when the last operation polled it
    pc,             \* "boot" before Game.scan_map has run, "play" after
    op,             \* the operation that ran last
    hit_x, hit_y,   \* whether move_x / move_y met a wall in the last operation
    cb,             \* how many times the last operation invoked a collision callback
    jumped,         \* whether jump() changed vy in the last operation
    frame,          \* number of Player.update frames run so far
    run,            \* the move calls made on one axis since the last collision
    key_left,       \* whether KEY_LEFT was held when the last operation polled it
    key_right,      \* whether KEY_RIGHT was held when the last operation polled it
    vy_moved,       \* vy as move_y left it in the last Player.update
    probe,          \* what the last bare check_collision call returned
    last            \* what the last recorded move call computed and travelled

vars == <<tilemap, x, y, x_remainder, y_remainder, vx, vy, key_up, pc, op,
          hit_x, hit_y, cb, jumped, frame, run, key_left, key_right, vy_moved, probe,
          last>>

\* what only Player.update and a bare check_collision call record.
polled == <<key_left, key_right, vy_moved, probe>>

Abs(n) == IF n < 0 THEN -n ELSE n

Sgn(n) == IF n > 0 THEN 1 ELSE IF n < 0 THEN -1 ELSE 0

\* ---- tile grid ----

\* tilemap.get(x, y).  Cells outside the modelled part of the map are cells of
\* the 256 x 256 tilemap nothing was drawn on.
Get(t, tx, ty) == IF <<tx, ty>> \in DOMAIN t THEN t[<<tx, ty>>] ELSE EMPTY_TILE

\* check_collision(x, y), with the single probe corner a careless rewrite
\* would use.
check_collision_corner(t, px, py) ==
    Get(t, px \div TILE_SIZE, py \div TILE_SIZE) \in WALL_TILES

\* check_collision(x, y) with the far edge of the box taken one pixel too far.
check_collision_wide(t, px, py) ==
    LET tx0 == px \div TILE_SIZE
        ty0 == py \div TILE_SIZE
        tx1 == (px + TILE_SIZE) \div TILE_SIZE
        ty1 == (py + TILE_SIZE) \div TILE_SIZE
    IN  \E ty \in ty0 .. ty1 : \E tx \in tx0 .. tx1 : Get(t, tx, ty) \in WALL_TILES

\* check_collision(x, y): whether the tile-sized box at (px, py) covers a wall.
check_collision(t, px, py) ==
    LET tx0 == px \div TILE_SIZE
        ty0 == py \div TILE_SIZE
        tx1 == (px + TILE_SIZE - 1) \div TILE_SIZE
        ty1 == (py + TILE_SIZE - 1) \div TILE_SIZE
    IN  \E ty \in ty0 .. ty1 : \E tx \in tx0 .. tx1 : Get(t, tx, ty) \in WALL_TILES

\* ---- Actor ----

\* round() with ties going up instead of round-half-to-even.
RoundHalfUp(r) == (r + Scale \div 2) \div Scale

\* round() with truncation toward zero instead of round-half-to-even.
RoundTrunc(r) == Sgn(r) * (Abs(r) \div Scale)

\* round() with ties away from zero instead of round-half-to-even.
RoundHalfAway(r) == Sgn(r) * ((Abs(r) + Scale \div 2) \div Scale)

\* Python's round(r): nearest integer, ties to the even one.
Round(r) ==
    LET q == r \div Scale
        f == r % Scale
    IN  IF 2 * f < Scale THEN q
        ELSE IF 2 * f > Scale THEN q + 1
        ELSE IF q % 2 = 0 THEN q ELSE q + 1

\* the stepping loop probing the pixel the actor stands on instead of the
\* pixel it is about to enter.
RECURSIVE StepLoopLate(_, _, _, _, _, _)
StepLoopLate(t, px, py, dx, dy, move) ==
    IF move = 0 THEN [px |-> px, py |-> py, hit |-> FALSE]
    ELSE IF check_collision(t, px, py)
         THEN [px |-> px, py |-> py, hit |-> TRUE]
         ELSE StepLoopLate(t, px + dx, py + dy, dx, dy, move - (dx + dy))

\* the stepping loop of move_x / move_y (game.py:99-109, 133-143) from
\* position (px, py) along the unit vector (dx, dy) with `move` pixels left.
\* Result: the final position and whether a wall was met.
RECURSIVE StepLoop(_, _, _, _, _, _)
StepLoop(t, px, py, dx, dy, move) ==
    IF move = 0 THEN [px |-> px, py |-> py, hit |-> FALSE]
    ELSE IF check_collision(t, px + dx, py + dy)
         THEN [px |-> px, py |-> py, hit |-> TRUE]
         ELSE StepLoop(t, px + dx, py + dy, dx, dy, move - (dx + dy))

\* move_x / move_y without the statement that takes the whole pixels out of
\* the remainder.
move_axis_keep(t, px, py, rem, amt, horizontal) ==
    LET r == rem + amt
        move == Round(r)
        sign == IF move > 0 THEN 1 ELSE -1
        dx == IF horizontal THEN sign ELSE 0
        dy == IF horizontal THEN 0 ELSE sign
        res == StepLoop(t, px, py, dx, dy, move)
    IN  [px |-> res.px, py |-> res.py, rem |-> r, hit |-> res.hit]

\* move_x / move_y forgetting the fraction left over once whole pixels have
\* been taken.
move_axis_reset(t, px, py, rem, amt, horizontal) ==
    LET r == rem + amt
        move == Round(r)
        sign == IF move > 0 THEN 1 ELSE -1
        dx == IF horizontal THEN sign ELSE 0
        dy == IF horizontal THEN 0 ELSE sign
        res == StepLoop(t, px, py, dx, dy, move)
    IN  IF move = 0
        THEN [px |-> px, py |-> py, rem |-> r, hit |-> FALSE]
        ELSE [px |-> res.px, py |-> res.py, rem |-> 0, hit |-> res.hit]

\* move_x / move_y giving back to the remainder, on a collision, the pixels
\* that were not travelled.
move_axis_restore(t, px, py, rem, amt, horizontal) ==
    LET r == rem + amt
        move == Round(r)
        sign == IF move > 0 THEN 1 ELSE -1
        dx == IF horizontal THEN sign ELSE 0
        dy == IF horizontal THEN 0 ELSE sign
        res == StepLoop(t, px, py, dx, dy, move)
    IN  IF move = 0
        THEN [px |-> px, py |-> py, rem |-> r, hit |-> FALSE]
        ELSE [px |-> res.px, py |-> res.py,
              rem |-> r - ((res.px - px) + (res.py - py)) * Scale, hit |-> res.hit]

\* the body of move_x / move_y returning before the amount is stored when the
\* step rounds to 0.
move_axis_forget(t, px, py, rem, amt, horizontal) ==
    LET r == rem + amt
        move == Round(r)
        sign == IF move > 0 THEN 1 ELSE -1
        dx == IF horizontal THEN sign ELSE 0
        dy == IF horizontal THEN 0 ELSE sign
        res == StepLoop(t, px, py, dx, dy, move)
    IN  IF move = 0
        THEN [px |-> px, py |-> py, rem |-> rem, hit |-> FALSE]
        ELSE [px |-> res.px, py |-> res.py, rem |-> r - move * Scale, hit |-> res.hit]

\* the body of move_x / move_y on one axis: the position, the remainder of
\* the moved axis and whether the loop met a wall.
move_axis(t, px, py, rem, amt, horizontal) ==
    LET r == rem + amt
        move == Round(r)
        sign == IF move > 0 THEN 1 ELSE -1
        dx == IF horizontal THEN sign ELSE 0
        dy == IF horizontal THEN 0 ELSE sign
        res == StepLoop(t, px, py, dx, dy, move)
    IN  IF move = 0
        THEN [px |-> px, py |-> py, rem |-> r, hit |-> FALSE]
        ELSE [px |-> res.px, py |-> res.py, rem |-> r - move * Scale, hit |-> res.hit]

\* how many times a move call invokes on_collision (game.py:103-104), the
\* loop having met a wall or not, a callback having been passed or not.
callbacks(met, w) == IF met /\ w THEN 1 ELSE 0

\* Actor.move_x stepping along the wrong axis.
move_x_cross(t, px, py, rem, amt) == move_axis(t, px, py, rem, amt, FALSE)

\* Actor.move_x(amount, on_collision) as a function of the actor's fields.
move_x(t, px, py, rem, amt) == move_axis(t, px, py, rem, amt, TRUE)

\* Actor.move_y(amount, on_collision) as a function of the actor's fields.
move_y(t, px, py, rem, amt) == move_axis(t, px, py, rem, amt, FALSE)

\* ---- Player ----

\* btni(key): 1 if the key is held, 0 otherwise.
btni(held) == IF held THEN 1 ELSE 0

\* Player.apply_gravity with the two reductions swapped: the hold reduction
\* applied when falling, none when rising.
apply_gravity_swapped(v, up) ==
    IF v < 0 THEN v + GRAVITY
    ELSE IF up THEN v + (((GRAVITY * 7) \div 10) * 6) \div 10
    ELSE v + (GRAVITY * 7) \div 10

\* Player.apply_gravity without the test of the jump key: 0.7 of the gravity
\* while rising, held or not.
apply_gravity_flat(v, up) ==
    v + (IF v < 0 THEN (GRAVITY * 7) \div 10 ELSE GRAVITY)

\* Player.apply_gravity: the new vy, given vy and whether KEY_UP is held.
apply_gravity(v, up) ==
    LET g0 == GRAVITY
        g1 == IF v < 0 THEN (g0 * 7) \div 10 ELSE g0
        g2 == IF v < 0 /\ up THEN (g1 * 6) \div 10 ELSE g1
    IN  v + g2

\* Player.jump without the ground test.
jump_always(t, px, py, v) == -JUMP_POWER

\* Player.jump: the new vy, given the position and vy.
jump(t, px, py, v) ==
    IF check_collision(t, px, py + TILE_SIZE) THEN -JUMP_POWER ELSE v

\* Player.update with gravity applied to the vy the frame began with, the
\* vertical collision callback coming too late to zero it.
update_gravity_first(t, px, py, xr, yr, v_x, v_y, was_up, left, right, up) ==
    LET mx == move_x(t, px, py, xr, v_x)
        vx1 == IF mx.hit THEN 0 ELSE v_x
        my == move_y(t, mx.px, py, yr, v_y)
        vy1 == IF my.hit THEN 0 ELSE v_y
        vx2 == (btni(right) - btni(left)) * Scale
        vy2 == apply_gravity(v_y, up)
        pressed == up /\ ~was_up
        vy3 == IF pressed THEN jump(t, mx.px, my.py, vy2) ELSE vy2
    IN  [px |-> mx.px, py |-> my.py, xr |-> mx.rem, yr |-> my.rem,
         vx |-> vx2, vy |-> vy3, hit_x |-> mx.hit, hit_y |-> my.hit,
         vy_moved |-> vy1, vy_fallen |-> vy2,
         jumped |-> pressed /\ vy3 # vy2]

\* Player.update with the horizontal collision callback running after the
\* keys have been read, so that a collision leaves vx at 0.
update_callback_last(t, px, py, xr, yr, v_x, v_y, was_up, left, right, up) ==
    LET mx == move_x(t, px, py, xr, v_x)
        vx1 == (btni(right) - btni(left)) * Scale
        my == move_y(t, mx.px, py, yr, v_y)
        vy1 == IF my.hit THEN 0 ELSE v_y
        vx2 == IF mx.hit THEN 0 ELSE vx1
        vy2 == apply_gravity(vy1, up)
        pressed == up /\ ~was_up
        vy3 == IF pressed THEN jump(t, mx.px, my.py, vy2) ELSE vy2
    IN  [px |-> mx.px, py |-> my.py, xr |-> mx.rem, yr |-> my.rem,
         vx |-> vx2, vy |-> vy3, hit_x |-> mx.hit, hit_y |-> my.hit,
         vy_moved |-> vy1, vy_fallen |-> vy2,
         jumped |-> pressed /\ vy3 # vy2]

\* Player.update calling move_y without its on_collision callback.
update_bare(t, px, py, xr, yr, v_x, v_y, was_up, left, right, up) ==
    LET mx == move_x(t, px, py, xr, v_x)
        vx1 == IF mx.hit THEN 0 ELSE v_x
        my == move_y(t, mx.px, py, yr, v_y)
        vy1 == v_y
        vx2 == (btni(right) - btni(left)) * Scale
        vy2 == apply_gravity(vy1, up)
        pressed == up /\ ~was_up
        vy3 == IF pressed THEN jump(t, mx.px, my.py, vy2) ELSE vy2
    IN  [px |-> mx.px, py |-> my.py, xr |-> mx.rem, yr |-> my.rem,
         vx |-> vx2, vy |-> vy3, hit_x |-> mx.hit, hit_y |-> my.hit,
         vy_moved |-> vy1, vy_fallen |-> vy2,
         jumped |-> pressed /\ vy3 # vy2]

\* Player.update: one frame.  `left`, `right`, `up` are the keys held during
\* the frame; KEY_UP counts as pressed (btnp) on the frame it goes down.
update(t, px, py, xr, yr, v_x, v_y, was_up, left, right, up) ==
    LET mx == move_x(t, px, py, xr, v_x)
        \* on_horizontal_collision
        vx1 == IF mx.hit THEN 0 ELSE v_x
        my == move_y(t, mx.px, py, yr, v_y)
        \* on_vertical_collision
        vy1 == IF my.hit THEN 0 ELSE v_y
        vx2 == (btni(right) - btni(left)) * Scale
        vy2 == apply_gravity(vy1, up)
        pressed == up /\ ~was_up
        vy3 == IF pressed THEN jump(t, mx.px, my.py, vy2) ELSE vy2
    IN  [px |-> mx.px, py |-> my.py, xr |-> mx.rem, yr |-> my.rem,
         vx |-> vx2, vy |-> vy3, hit_x |-> mx.hit, hit_y |-> my.hit,
         vy_moved |-> vy1, vy_fallen |-> vy2,
         jumped |-> pressed /\ vy3 # vy2]

\* ---- Game ----

\* the cells holding the spawn marker.
Markers(t) == { c \in Cells : t[c] = PLAYER_TILE }

\* the marker Game.scan_map visits last: rows outermost, columns innermost.
LastMarker(t) ==
    CHOOSE c \in Markers(t) :
        \A d \in Markers(t) : d[2] < c[2] \/ (d[2] = c[2] /\ d[1] <= c[1])

\* the marker Game.scan_map would keep if it stopped at the first one found.
FirstMarker(t) ==
    CHOOSE c \in Markers(t) :
        \A d \in Markers(t) : d[2] > c[2] \/ (d[2] = c[2] /\ d[1] >= c[1])

\* Game.scan_map with the column and the row exchanged in the position.
scan_map_swapped(t, px, py) ==
    [tilemap |-> [c \in Cells |-> IF t[c] = PLAYER_TILE THEN EMPTY_TILE ELSE t[c]],
     px |-> IF Markers(t) = {} THEN px ELSE LastMarker(t)[2] * TILE_SIZE,
     py |-> IF Markers(t) = {} THEN py ELSE LastMarker(t)[1] * TILE_SIZE]

\* Game.scan_map: the tilemap and the player's position afterwards.
scan_map(t, px, py) ==
    [tilemap |-> [c \in Cells |-> IF t[c] = PLAYER_TILE THEN EMPTY_TILE ELSE t[c]],
     px |-> IF Markers(t) = {} THEN px ELSE LastMarker(t)[1] * TILE_SIZE,
     py |-> IF Markers(t) = {} THEN py ELSE LastMarker(t)[2] * TILE_SIZE]

\* ---- the maps explored ----

\* wall blocks inside the bordering wall: none, a step in the bottom left
\* corner, a block in the middle of the floor.
Layouts == { {}, {<<1, 2>>}, {<<2, 2>>} }

\* every way of filling the inside of the window with walls.
ScanLayouts == SUBSET Interior

\* a map as the editor saves it: a wall around the window, the blocks of the
\* layout, and spawn markers on the cells of `marks`.
RawMap(layout, marks) ==
    [c \in Cells |->
        IF c \notin Interior THEN 2
        ELSE IF c \in layout THEN 3
        ELSE IF c \in marks THEN PLAYER_TILE
        ELSE EMPTY_TILE]

\* the maps Game.__init__ may load: one to MaxMarkers spawn markers, or none.
MaxMarkers == 2

MarkerSets(layout) ==
    { m \in SUBSET (Interior \ layout) : Cardinality(m) <= MaxMarkers }

\* the whole pixels at which a tile-sized box lies inside the window.
PixelsX == 0 .. ((MapW - 1) * TILE_SIZE)
PixelsY == 0 .. ((MapH - 1) * TILE_SIZE)

\* the amounts offered to a bare move call, in quarter pixels scaled to the
\* unit: 0, 1/4, 1/2, 1, 3/2 and 10 pixels, either way.
QuarterAmounts == {0, 1, 2, 4, 6, 40}

Amounts == { s * q * (Scale \div 4) : s \in {-1, 1}, q \in QuarterAmounts }

\* ---- the record of a sequence of move calls ----

\* `run` describes the calls made on run.axis since the actor was built or
\* last met a wall: where the actor stood and what remainder it held when the
\* sequence began (pos, rem), how many calls it holds (len), the sum of their
\* amounts (sum) and their common amount (amt, 0 once two amounts differ).
\* run.on is FALSE before the first call and after a colliding one.  The
\* amounts of a sequence are multiples of run.unit.
RunIdle(axis, unit) ==
    [axis |-> axis, unit |-> unit, on |-> FALSE,
     pos |-> 0, rem |-> 0, sum |-> 0, len |-> 0, amt |-> 0]

\* the record after a call of amount a on `axis`, made at position p0 with
\* remainder rem0, that met a wall (hit) or not.
Track(r, axis, a, p0, rem0, hit) ==
    IF r.axis # axis THEN r
    ELSE IF hit THEN RunIdle(r.axis, r.unit)
    ELSE IF ~r.on
         THEN [r EXCEPT !.on = TRUE, !.pos = p0, !.rem = rem0,
                        !.sum = a, !.len = 1, !.amt = a]
         ELSE [r EXCEPT !.sum = @ + a, !.len = @ + 1,
                        !.amt = IF @ = a THEN a ELSE 0]

\* quarters and fifths of a pixel.  Sums of quarters are exact in the
\* program's doubles; sums of fifths are off by less than 10^-15, far from
\* any rounding tie, since no sum of fifths is half a pixel.
RunUnits == {Scale \div 4, Scale \div 5}

\* the amounts of a sequence: one unit, two units and one pixel, either way.
RunAmounts(unit) == { s * k * unit : s \in {-1, 1}, k \in {1, 2, Scale \div unit} }

\* `last` describes a recorded move call: the accumulated remainder it
\* rounded (acc, game.py:82), the step it computed (step, game.py:85) and
\* the pixels it travelled, signed (went).  Before any such call:
NoCall == [acc |-> 0, step |-> 0, went |-> 0]

\* the amounts of the recorded calls: 1/2, 1 and 3 pixels, either way.
StepAmounts == { s * h * (Scale \div 2) : s \in {-1, 1}, h \in {1, 2, 6} }

\* ---- operations ----

\* Game.__init__ has built the player at (W / 2, H / 2) and loaded the map.
InitBoot ==
    /\ \E layout \in ScanLayouts : \E marks \in MarkerSets(layout) :
            tilemap = RawMap(layout, marks)
    /\ x = W \div 2
    /\ y = H \div 2
    /\ x_remainder = 0
    /\ y_remainder = 0
    /\ vx = 0
    /\ vy = 0
    /\ key_up = FALSE
    /\ pc = "boot"
    /\ op = "init"
    /\ hit_x = FALSE
    /\ hit_y = FALSE
    /\ cb = 0
    /\ jumped = FALSE
    /\ frame = 0
    /\ run = RunIdle("none", Scale)
    /\ key_left = FALSE
    /\ key_right = FALSE
    /\ vy_moved = 0
    /\ probe = FALSE
    /\ last = NoCall

\* Game.scan_map, the last statement of Game.__init__.
ScanMap ==
    /\ pc = "boot"
    /\ \E res \in {scan_map(tilemap, x, y)} :
           /\ tilemap' = res.tilemap
           /\ x' = res.px
           /\ y' = res.py
    /\ pc' = "play"
    /\ op' = "scan_map"
    /\ UNCHANGED <<x_remainder, y_remainder, vx, vy, key_up, hit_x, hit_y, cb, jumped,
                   frame, run, polled, last>>

\* a shaft one tile wide and ShaftH tiles tall, walled all round: the room for
\* a whole jump.
ShaftH == 7

ShaftCells == (0 .. 2) \X (0 .. ShaftH - 1)

Shaft ==
    [c \in ShaftCells |->
        IF c[1] = 1 /\ c[2] \in 1 .. ShaftH - 2 THEN EMPTY_TILE ELSE 2]

\* the frames a jump is followed for.
MaxRise == 26

\* a game in the shaft, the player spawned on one of its two lowest cells.
InitShaft ==
    /\ tilemap = Shaft
    /\ x = TILE_SIZE
    /\ y \in { (ShaftH - 2) * TILE_SIZE, (ShaftH - 3) * TILE_SIZE }
    /\ x_remainder = 0
    /\ y_remainder = 0
    /\ vx = 0
    /\ vy = 0
    /\ key_up = FALSE
    /\ pc = "play"
    /\ op = "init"
    /\ hit_x = FALSE
    /\ hit_y = FALSE
    /\ cb = 0
    /\ jumped = FALSE
    /\ frame = 0
    /\ run = RunIdle("none", Scale)
    /\ key_left = FALSE
    /\ key_right = FALSE
    /\ vy_moved = 0
    /\ probe = FALSE
    /\ last = NoCall

\* a game whose map holds exactly one spawn marker, Game.__init__ done.
InitGame ==
    /\ \E layout \in Layouts : \E m \in Interior \ layout :
            LET res == scan_map(RawMap(layout, {m}), W \div 2, H \div 2)
            IN  /\ tilemap = res.tilemap
                /\ x = res.px
                /\ y = res.py
    /\ x_remainder = 0
    /\ y_remainder = 0
    /\ vx = 0
    /\ vy = 0
    /\ key_up = FALSE
    /\ pc = "play"
    /\ op = "init"
    /\ hit_x = FALSE
    /\ hit_y = FALSE
    /\ cb = 0
    /\ jumped = FALSE
    /\ frame = 0
    /\ run = RunIdle("none", Scale)
    /\ key_left = FALSE
    /\ key_right = FALSE
    /\ vy_moved = 0
    /\ probe = FALSE
    /\ last = NoCall

\* an Actor built by Actor(x, y) at any whole pixel clear of the walls.
InitActor ==
    /\ \E layout \in Layouts : tilemap = RawMap(layout, {})
    /\ x \in PixelsX
    /\ y \in PixelsY
    /\ ~check_collision(tilemap, x, y)
    /\ x_remainder = 0
    /\ y_remainder = 0
    /\ vx = 0
    /\ vy = 0
    /\ key_up = FALSE
    /\ pc = "play"
    /\ op = "init"
    /\ hit_x = FALSE
    /\ hit_y = FALSE
    /\ cb = 0
    /\ jumped = FALSE
    /\ frame = 0
    /\ run = RunIdle("none", Scale)
    /\ key_left = FALSE
    /\ key_right = FALSE
    /\ vy_moved = 0
    /\ probe = FALSE
    /\ last = NoCall

\* Actor.move_x(a, on_collision); `w` tells whether a callback was passed.
MoveXBody(a, w) ==
    /\ pc = "play"
    /\ \E res \in {move_x(tilemap, x, y, x_remainder, a)} :
           /\ x' = res.px
           /\ x_remainder' = res.rem
           /\ hit_x' = res.hit
           /\ cb' = callbacks(res.hit, w)
           /\ run' = Track(run, "x", a, x, x_remainder, res.hit)
    /\ hit_y' = FALSE
    /\ jumped' = FALSE
    /\ op' = "move_x"
    /\ UNCHANGED <<tilemap, y, y_remainder, vx, vy, key_up, pc, frame, polled>>

\* Actor.move_x(a, on_collision), nothing recorded of the call.
MoveX(a, w) ==
    /\ MoveXBody(a, w)
    /\ UNCHANGED last

\* Actor.move_x(a, on_collision), the call recorded.
StepX(a) ==
    /\ MoveXBody(a, TRUE)
    /\ last' = [acc |-> x_remainder + a, step |-> Round(x_remainder + a), went |-> x' - x]

\* Actor.move_y(a, on_collision).
MoveYBody(a, w) ==
    /\ pc = "play"
    /\ \E res \in {move_y(tilemap, x, y, y_remainder, a)} :
           /\ y' = res.py
           /\ y_remainder' = res.rem
           /\ hit_y' = res.hit
           /\ cb' = callbacks(res.hit, w)
           /\ run' = Track(run, "y", a, y, y_remainder, res.hit)
    /\ hit_x' = FALSE
    /\ jumped' = FALSE
    /\ op' = "move_y"
    /\ UNCHANGED <<tilemap, x, x_remainder, vx, vy, key_up, pc, frame, polled>>

\* Actor.move_y(a, on_collision), nothing recorded of the call.
MoveY(a, w) ==
    /\ MoveYBody(a, w)
    /\ UNCHANGED last

\* Actor.move_y(a, on_collision), the call recorded.
StepY(a) ==
    /\ MoveYBody(a, TRUE)
    /\ last' = [acc |-> y_remainder + a, step |-> Round(y_remainder + a), went |-> y' - y]

\* the body of Player.update: everything a frame does to the player.
UpdateFrame(left, right, up) ==
    /\ pc = "play"
    /\ \E res \in {update(tilemap, x, y, x_remainder, y_remainder, vx, vy,
                         key_up, left, right, up)} :
           /\ x' = res.px
           /\ y' = res.py
           /\ x_remainder' = res.xr
           /\ y_remainder' = res.yr
           /\ vx' = res.vx
           /\ vy' = res.vy
           /\ hit_x' = res.hit_x
           /\ hit_y' = res.hit_y
           /\ cb' = callbacks(res.hit_x, TRUE) + callbacks(res.hit_y, TRUE)
           /\ jumped' = res.jumped
           /\ vy_moved' = res.vy_moved
    /\ key_up' = up
    /\ key_left' = left
    /\ key_right' = right
    /\ op' = "update"
    /\ UNCHANGED <<tilemap, pc, run, probe, last>>

\* Player.update, called once per frame by Game.update, the frames counted.
Update(left, right, up) ==
    /\ frame < MaxFrames
    /\ frame' = frame + 1
    /\ UpdateFrame(left, right, up)

\* Player.update in a frame in which no key is held.
Fall ==
    /\ UpdateFrame(FALSE, FALSE, FALSE)
    /\ UNCHANGED frame

\* a Player built by Player(x, y) at any whole pixel clear of the walls; the
\* record keeps the height it was built at (run.pos).
InitFall ==
    /\ \E layout \in Layouts : tilemap = RawMap(layout, {})
    /\ x \in PixelsX
    /\ y \in PixelsY
    /\ ~check_collision(tilemap, x, y)
    /\ x_remainder = 0
    /\ y_remainder = 0
    /\ vx = 0
    /\ vy = 0
    /\ key_up = FALSE
    /\ pc = "play"
    /\ op = "init"
    /\ hit_x = FALSE
    /\ hit_y = FALSE
    /\ cb = 0
    /\ jumped = FALSE
    /\ frame = 0
    /\ run = [RunIdle("none", Scale) EXCEPT !.pos = y]
    /\ key_left = FALSE
    /\ key_right = FALSE
    /\ vy_moved = 0
    /\ probe = FALSE
    /\ last = NoCall

\* an Actor built by Actor(x, y) at any whole pixel of the window, clear of
\* the walls or not: the constructor does not look at the map.
InitProbe ==
    /\ \E layout \in Layouts : tilemap = RawMap(layout, {})
    /\ x \in PixelsX
    /\ y \in PixelsY
    /\ x_remainder = 0
    /\ y_remainder = 0
    /\ vx = 0
    /\ vy = 0
    /\ key_up = FALSE
    /\ pc = "play"
    /\ op = "init"
    /\ hit_x = FALSE
    /\ hit_y = FALSE
    /\ cb = 0
    /\ jumped = FALSE
    /\ frame = 0
    /\ run = RunIdle("none", Scale)
    /\ key_left = FALSE
    /\ key_right = FALSE
    /\ vy_moved = 0
    /\ probe = FALSE
    /\ last = NoCall

\* check_collision(x, y), called on its own for the actor's box.
CheckCollision ==
    /\ pc = "play"
    /\ probe' = check_collision(tilemap, x, y)
    /\ op' = "check_collision"
    /\ UNCHANGED <<tilemap, x, y, x_remainder, y_remainder, vx, vy, key_up, hit_x, hit_y,
                   cb, jumped, frame, run, pc, key_left, key_right, vy_moved, last>>

\* an Actor built at the spawn tile of a map, its calls on one axis recorded.
InitRun ==
    /\ \E layout \in Layouts : \E m \in Interior \ layout :
            /\ tilemap = RawMap(layout, {})
            /\ x = m[1] * TILE_SIZE
            /\ y = m[2] * TILE_SIZE
    /\ x_remainder = 0
    /\ y_remainder = 0
    /\ vx = 0
    /\ vy = 0
    /\ key_up = FALSE
    /\ pc = "play"
    /\ op = "init"
    /\ hit_x = FALSE
    /\ hit_y = FALSE
    /\ cb = 0
    /\ jumped = FALSE
    /\ frame = 0
    /\ \E axis \in {"x", "y"}, unit \in RunUnits : run = RunIdle(axis, unit)
    /\ key_left = FALSE
    /\ key_right = FALSE
    /\ vy_moved = 0
    /\ probe = FALSE
    /\ last = NoCall

\* the next move_x call of a recorded sequence.
RunX(a) ==
    /\ run.axis = "x"
    /\ run.len < MaxRun
    /\ MoveX(a, TRUE)

\* the next move_y call of a recorded sequence.
RunY(a) ==
    /\ run.axis = "y"
    /\ run.len < MaxRun
    /\ MoveY(a, TRUE)

\* ---- one amount repeated ----

\* 2^-56 of a pixel is less than the model's thousandths can tell from 0: a
\* sequence of such amounts has run.unit = TinyUnit and run.amt = 1 or -1,
\* the amount counted in that unit.
TinyUnit == 0

\* the amounts repeated: a fifth, a quarter and 2^-56 of a pixel.
RepeatUnits == RunUnits \cup {TinyUnit}

\* the amounts below one pixel of a repeated sequence: one unit and two.
RepeatAmounts(unit) == { s * k * unit : s \in {-1, 1}, k \in {1, 2} }

\* the remainders a repeated sequence may find: the multiples of its unit up
\* to half a pixel either way; for 2^-56, a quarter and a half either way.
StartRems(unit) ==
    IF unit = TinyUnit
    THEN { s * q * (Scale \div 4) : s \in {-1, 1}, q \in {1, 2} }
    ELSE { k * unit : k \in { j \in -2 .. 2 : 2 * Abs(j * unit) <= Scale } }

\* rem + amount as the program's doubles add them (game.py:82, 116), for an
\* amount of 2^-56 pixel either way and a remainder of a quarter pixel or more
\* either way.  The doubles next to such a remainder are 2^-55 or more away
\* from it, the exact sum is nearer to the remainder than to any of them, and
\* the sum stored is the remainder itself.
add_absorbed(rem) == rem

\* an Actor at a spawn cell, left by earlier calls with some remainder on the
\* axis of the sequence to come.
InitRepeat ==
    /\ \E layout \in Layouts : \E m \in Interior \ layout :
            /\ tilemap = RawMap(layout, {})
            /\ x = m[1] * TILE_SIZE
            /\ y = m[2] * TILE_SIZE
    /\ \E axis \in {"x", "y"}, unit \in RepeatUnits :
            /\ run = RunIdle(axis, unit)
            /\ \E r \in StartRems(unit) :
                    /\ x_remainder = IF axis = "x" THEN r ELSE 0
                    /\ y_remainder = IF axis = "y" THEN r ELSE 0
    /\ vx = 0
    /\ vy = 0
    /\ key_up = FALSE
    /\ pc = "play"
    /\ op = "init"
    /\ hit_x = FALSE
    /\ hit_y = FALSE
    /\ cb = 0
    /\ jumped = FALSE
    /\ frame = 0
    /\ key_left = FALSE
    /\ key_right = FALSE
    /\ vy_moved = 0
    /\ probe = FALSE
    /\ last = NoCall

\* move_x(a) once more, a the amount of the sequence under way if there is
\* one.
RepeatX(a) ==
    /\ run.axis = "x"
    /\ run.unit # TinyUnit
    /\ run.len < MaxRun
    /\ run.on => a = run.amt
    /\ StepX(a)

\* move_y(a) once more.
RepeatY(a) ==
    /\ run.axis = "y"
    /\ run.unit # TinyUnit
    /\ run.len < MaxRun
    /\ run.on => a = run.amt
    /\ StepY(a)

\* move_x(s * 2^-56) once more.  The calls after the first find the state
\* the first found and leave it as it is; the record does not count them.
RepeatTinyX(s) ==
    /\ run.axis = "x"
    /\ run.unit = TinyUnit
    /\ 4 * Abs(x_remainder) >= Scale
    /\ run.on => s = run.amt
    /\ pc = "play"
    /\ \E res \in {move_x(tilemap, x, y, add_absorbed(x_remainder), 0)} :
           /\ x' = res.px
           /\ x_remainder' = res.rem
           /\ hit_x' = res.hit
           /\ cb' = callbacks(res.hit, TRUE)
           /\ last' = [acc |-> add_absorbed(x_remainder),
                       step |-> Round(add_absorbed(x_remainder)),
                       went |-> res.px - x]
    /\ run' = IF run.on THEN run ELSE Track(run, "x", s, x, x_remainder, FALSE)
    /\ hit_y' = FALSE
    /\ jumped' = FALSE
    /\ op' = "move_x"
    /\ UNCHANGED <<tilemap, y, y_remainder, vx, vy, key_up, pc, frame, polled>>

\* move_y(s * 2^-56) once more.
RepeatTinyY(s) ==
    /\ run.axis = "y"
    /\ run.unit = TinyUnit
    /\ 4 * Abs(y_remainder) >= Scale
    /\ run.on => s = run.amt
    /\ pc = "play"
    /\ \E res \in {move_y(tilemap, x, y, add_absorbed(y_remainder), 0)} :
           /\ y' = res.py
           /\ y_remainder' = res.rem
           /\ hit_y' = res.hit
           /\ cb' = callbacks(res.hit, TRUE)
           /\ last' = [acc |-> add_absorbed(y_remainder),
                       step |-> Round(add_absorbed(y_remainder)),
                       went |-> res.py - y]
    /\ run' = IF run.on THEN run ELSE Track(run, "y", s, y, y_remainder, FALSE)
    /\ hit_x' = FALSE
    /\ jumped' = FALSE
    /\ op' = "move_y"
    /\ UNCHANGED <<tilemap, x, x_remainder, vx, vy, key_up, pc, frame, polled>>

\* a Player built by Player(x, y) at any whole pixel clear of the walls.
InitPlayer == InitActor

\* Player.jump(), called on its own.
Jump ==
    /\ pc = "play"
    /\ vy' = jump(tilemap, x, y, vy)
    /\ jumped' = (vy' # vy)
    /\ hit_x' = FALSE
    /\ hit_y' = FALSE
    /\ cb' = 0
    /\ op' = "jump"
    /\ UNCHANGED <<tilemap, x, y, x_remainder, y_remainder, vx, key_up, pc, frame, run,
                   polled, last>>

\* Player.apply_gravity(), called on its own; `up` is what btn(KEY_UP) returns.
ApplyGravity(up) ==
    /\ pc = "play"
    /\ vy < MaxVy * Scale
    /\ vy' = apply_gravity(vy, up)
    /\ key_up' = up
    /\ jumped' = FALSE
    /\ hit_x' = FALSE
    /\ hit_y' = FALSE
    /\ cb' = 0
    /\ op' = "apply_gravity"
    /\ UNCHANGED <<tilemap, x, y, x_remainder, y_remainder, vx, pc, frame, run, key_left,
                   key_right, vy_moved, probe, last>>

\* ---- specifications ----

\* the game: frames of Player.update after Game.__init__.
Next == \E left \in BOOLEAN, right \in BOOLEAN, up \in BOOLEAN : Update(left, right, up)

Spec == InitGame /\ [][Next]_vars

\* an actor driven by bare move calls.
NextActor ==
    \/ \E a \in Amounts, w \in BOOLEAN : MoveX(a, w)
    \/ \E a \in Amounts, w \in BOOLEAN : MoveY(a, w)

SpecActor == InitActor /\ [][NextActor]_vars

\* an actor driven along one axis, its collision-free sequences recorded.
NextRun ==
    \/ \E a \in RunAmounts(run.unit) : RunX(a)
    \/ \E a \in RunAmounts(run.unit) : RunY(a)

SpecRun == InitRun /\ [][NextRun]_vars

\* a player whose jump and apply_gravity methods are called on their own.
NextPlayer ==
    \/ Jump
    \/ \E up \in BOOLEAN : ApplyGravity(up)

SpecPlayer == InitPlayer /\ [][NextPlayer]_vars

\* an actor at a spawn tile driven by recorded move calls.
NextStep ==
    \/ \E a \in StepAmounts : StepX(a)
    \/ \E a \in StepAmounts : StepY(a)

SpecStep == InitGame /\ [][NextStep]_vars

\* a bare collision probe at the actor's position.
NextProbe == CheckCollision

SpecProbe == InitProbe /\ [][NextProbe]_vars

\* an actor on which one move call is repeated for ever.
NextRepeat ==
    \/ \E a \in RepeatAmounts(run.unit) : RepeatX(a)
    \/ \E a \in RepeatAmounts(run.unit) : RepeatY(a)
    \/ \E s \in {-1, 1} : RepeatTinyX(s)
    \/ \E s \in {-1, 1} : RepeatTinyY(s)

\* the caller makes the next call whenever there is one to make.
SpecRepeat == InitRepeat /\ [][NextRepeat]_vars /\ WF_vars(NextRepeat)

\* a player left alone: pyxel.run (game.py:243) calls update on every frame.
NextFall == Fall

SpecFall == InitFall /\ [][NextFall]_vars /\ WF_vars(NextFall)

\* the game in the shaft.
NextJump ==
    \E left \in BOOLEAN, right \in BOOLEAN, up \in BOOLEAN : Update(left, right, up)

SpecJump == InitShaft /\ [][NextJump]_vars

\* Game.__init__ on any of the maps.
NextScan == ScanMap

SpecScan == InitBoot /\ [][NextScan]_vars

\* ---- what the claims speak of ----

\* whether the pixel rectangle x0 .. x1 by y0 .. y1 shares a pixel with a
\* wall tile: cell (c, r) covers the pixels c * TILE_SIZE .. c * TILE_SIZE +
\* TILE_SIZE - 1 across and r * TILE_SIZE .. r * TILE_SIZE + TILE_SIZE - 1 down.
RectOverlaps(t, x0, x1, y0, y1) ==
    \E c \in Cells :
        /\ c[1] * TILE_SIZE <= x1 /\ x0 < (c[1] + 1) * TILE_SIZE
        /\ c[2] * TILE_SIZE <= y1 /\ y0 < (c[2] + 1) * TILE_SIZE
        /\ t[c] \in WALL_TILES

\* whether the tile-sized box at (bx, by) shares a pixel with a wall tile.
Overlaps(t, bx, by) ==
    RectOverlaps(t, bx, bx + TILE_SIZE - 1, by, by + TILE_SIZE - 1)

\* whether the box lies within the wall that borders the window.
Enclosed(bx, by) ==
    /\ bx \in TILE_SIZE .. ((MapW - 2) * TILE_SIZE)
    /\ by \in TILE_SIZE .. ((MapH - 2) * TILE_SIZE)

\* C1 (no tunneling): after every move_x / move_y call the actor's box
\* covers no pixel of a wall tile and has not passed the bordering wall.
C1_NoTunneling ==
    pc = "play" => ~Overlaps(tilemap, x, y) /\ Enclosed(x, y)

\* a move call has just been stopped by a wall, the actor flush against it.
C1_Witness ==
    /\ op = "move_x"
    /\ hit_x
    /\ Overlaps(tilemap, x + 1, y) \/ Overlaps(tilemap, x - 1, y)
    /\ ~Overlaps(tilemap, x, y)

\* C2 (remainder invariant): after every move call both remainders lie
\* strictly between -1 and 1 pixel.
C2_RemainderInvariant ==
    /\ -Scale < x_remainder /\ x_remainder < Scale
    /\ -Scale < y_remainder /\ y_remainder < Scale

\* a colliding call has left half a pixel in the remainder.
C2_Witness ==
    /\ op = "move_y"
    /\ hit_y
    /\ Abs(y_remainder) = Scale \div 2

\* C3 (no double-jump): in every frame in which a fresh press of the jump key
\* changed vy, the player rests on a solid tile, i.e. the box one pixel
\* further down would cover a wall.
C3_NoDoubleJump ==
    (op = "update" /\ jumped) => Overlaps(tilemap, x, y + 1)

\* C4 (jump gating): a jump() call sets vy to -JUMP_POWER when the tile-sized
\* box at (x, y + TILE_SIZE) covers a solid tile and leaves vy as it was when
\* it covers none; position, remainders and vx stay as they were either way.
C4_JumpGating ==
    [][op' = "jump" =>
          /\ vy' = IF Overlaps(tilemap, x, y + TILE_SIZE) THEN -JUMP_POWER ELSE vy
          /\ UNCHANGED <<tilemap, x, y, x_remainder, y_remainder, vx>>]_vars

\* a jump() call has just taken off a player that was falling.
C4_Witness ==
    /\ op = "jump"
    /\ jumped
    /\ vy = -JUMP_POWER
    /\ Overlaps(tilemap, x, y + TILE_SIZE)

\* a jump() call has just been ignored, no solid tile being under the probe.
C4_WitnessIgnored ==
    /\ op = "jump"
    /\ ~jumped
    /\ vy > 0
    /\ ~Overlaps(tilemap, x, y + TILE_SIZE)

Min(m, n) == IF m < n THEN m ELSE n

Max(m, n) == IF m < n THEN n ELSE m

\* whether a box travelling n pixels from (bx, by) along the unit vector
\* (dx, dy) would enter a wall tile on the way: the boxes at 1 .. n pixels
\* from the start together cover one rectangle.
MeetsWall(t, bx, by, dx, dy, n) ==
    /\ n >= 1
    /\ RectOverlaps(t, Min(bx + dx, bx + n * dx),
                       Max(bx + dx, bx + n * dx) + TILE_SIZE - 1,
                       Min(by + dy, by + n * dy),
                       Max(by + dy, by + n * dy) + TILE_SIZE - 1)

\* what C5 says of a move call along (dx, dy) with amount a, made with the
\* stored remainder rem and giving res: the callback runs at most once, and
\* once exactly when one was passed and the path of the rounded step enters
\* a wall; the actor then stands flush against that wall.
C5_Fires(a, rem, dx, dy, res) ==
    \A step \in {Round(rem + a)} :
        /\ \A met \in {MeetsWall(tilemap, x, y, Sgn(step) * dx, Sgn(step) * dy, Abs(step))} :
              \A w \in BOOLEAN :
                  /\ callbacks(res.hit, w) \in {0, 1}
                  /\ callbacks(res.hit, w) = 1 <=> (w /\ met)
        /\ res.hit => Overlaps(tilemap, res.px + Sgn(step) * dx, res.py + Sgn(step) * dy)

\* an actor with a wall one pixel ahead in the direction of amount a stays
\* where it is and has its callback, if it passed one, run.
C5_Blocked(a, dx, dy, res) ==
    Overlaps(tilemap, x + Sgn(a) * dx, y + Sgn(a) * dy)
        => res.px = x /\ res.py = y /\ callbacks(res.hit, TRUE) = 1

\* an amount of magnitude 1 met by a stored remainder of exactly half a
\* pixel the other way: the sum rounds to a step of 0.
C5_Tie(a, rem) == Abs(a) = Scale /\ 2 * rem = -Sgn(a) * Scale

\* C5 as claimed: in every state the program reaches, a move call runs the
\* callback at most once, once exactly when the loop meets a wall; a blocked
\* actor asked to move by 1 pixel or more stays put and has the callback
\* run, on every such call.
C5_Original ==
    pc = "play" =>
        \A a \in Amounts :
            /\ \A res \in {move_x(tilemap, x, y, x_remainder, a)} :
                  /\ C5_Fires(a, x_remainder, 1, 0, res)
                  /\ Abs(a) >= Scale => C5_Blocked(a, 1, 0, res)
            /\ \A res \in {move_y(tilemap, x, y, y_remainder, a)} :
                  /\ C5_Fires(a, y_remainder, 0, 1, res)
                  /\ Abs(a) >= Scale => C5_Blocked(a, 0, 1, res)

\* C5 (collision callback firing), amended: as claimed, except that a call
\* of magnitude exactly 1 made with a remainder of exactly half a pixel the
\* other way is left out (its step rounds to 0, nothing moves or fires).
C5_CallbackFiring ==
    pc = "play" =>
        \A a \in Amounts :
            /\ \A res \in {move_x(tilemap, x, y, x_remainder, a)} :
                  /\ C5_Fires(a, x_remainder, 1, 0, res)
                  /\ (Abs(a) >= Scale /\ ~C5_Tie(a, x_remainder))
                        => C5_Blocked(a, 1, 0, res)
            /\ \A res \in {move_y(tilemap, x, y, y_remainder, a)} :
                  /\ C5_Fires(a, y_remainder, 0, 1, res)
                  /\ (Abs(a) >= Scale /\ ~C5_Tie(a, y_remainder))
                        => C5_Blocked(a, 0, 1, res)

\* a move call has had its callback run and the actor, flush against the
\* wall with no remainder, is blocked for the next call in that direction.
C5_Witness ==
    /\ op = "move_x"
    /\ hit_x
    /\ cb = 1
    /\ x_remainder = 0
    /\ Overlaps(tilemap, x + 1, y)

\* the actor's position and remainder on the axis of the recorded sequence.
RunPos == IF run.axis = "x" THEN x ELSE y

RunRem == IF run.axis = "x" THEN x_remainder ELSE y_remainder

\* the recorded sequence is one C6 speaks of: unobstructed calls of one
\* fixed delta of magnitude below one pixel, begun with remainder 0.
C6_Uniform ==
    /\ run.on
    /\ run.rem = 0
    /\ run.amt # 0
    /\ Abs(run.amt) < Scale

\* C6 as stated: in such a sequence the position does not change as long as
\* the accumulated deltas have not reached one pixel.
C6_Original ==
    (C6_Uniform /\ run.len * Abs(run.amt) < Scale) => RunPos = run.pos

\* C6 (sub-pixel accumulation threshold), amended: in such a sequence the
\* position does not change while the accumulated deltas are at most half a
\* pixel; at the first call that takes them beyond half a pixel the actor
\* moves exactly one pixel the way of the delta and the remainder is the
\* accumulated deltas less that pixel.
C6_Threshold ==
    C6_Uniform =>
        /\ 2 * run.len * Abs(run.amt) <= Scale
               => RunPos = run.pos /\ RunRem = run.len * run.amt
        /\ (2 * (run.len - 1) * Abs(run.amt) <= Scale /\ 2 * run.len * Abs(run.amt) > Scale)
               => /\ RunPos = run.pos + Sgn(run.amt)
                  /\ RunRem = run.len * run.amt - Sgn(run.amt) * Scale

\* the third call of 0.2 has just moved the actor one pixel, the deltas
\* adding up to 0.6.
C6_Witness ==
    /\ C6_Uniform
    /\ 5 * run.amt = Scale
    /\ run.len = 3
    /\ RunPos = run.pos + 1
    /\ 5 * RunRem = -2 * Scale

\* what was asked of a collision-free sequence and what it did, in units.
RunAsked == run.sum

RunDone == Scale * (RunPos - run.pos)

\* position plus remainder has grown by the sum of the amounts.
C7_Conserved ==
    Scale * RunPos + RunRem = Scale * run.pos + run.rem + run.sum

\* five calls of 0.2 from remainder 0 have moved the actor one pixel.
C7_FiveFifths ==
    (run.rem = 0 /\ 5 * run.amt = Scale /\ run.len = 5) => RunPos = run.pos + 1

\* C7 as stated: over any sequence of calls none of which collides, position
\* plus remainder grows by the sum of the amounts and the whole-pixel
\* displacement differs from that sum by less than one pixel; five calls of
\* 0.2 from remainder 0 move the actor one pixel.
C7_Original ==
    run.on =>
        /\ C7_Conserved
        /\ Abs(RunDone - RunAsked) < Scale
        /\ C7_FiveFifths

\* C7 (no motion lost or gained), amended: the displacement differs from the
\* sum by at most one pixel, and by at most half a pixel when the sequence
\* began with remainder 0; the rest as stated.
C7_NoMotionLost ==
    run.on =>
        /\ C7_Conserved
        /\ Abs(RunDone - RunAsked) <= Scale
        /\ run.rem = 0 => 2 * Abs(RunDone - RunAsked) <= Scale
        /\ C7_FiveFifths

\* a collision-free sequence has moved the actor a whole pixel more than the
\* sum of its amounts: it began with half a pixel in the remainder.
C7_Witness ==
    /\ run.on
    /\ Abs(RunDone - RunAsked) = Scale
    /\ Abs(RunDone) > Abs(RunAsked)

\* five calls of 0.2 from remainder 0 have just been made without collision.
C7_WitnessFive ==
    /\ run.on
    /\ run.rem = 0
    /\ 5 * run.amt = Scale
    /\ run.len = 5
    /\ RunRem = 0

\* C8 (zero-delta idempotence): in every state the program reaches, a move
\* call with amount 0 changes neither position nor remainder and runs no
\* callback, however often it is made.
C8_ZeroDelta ==
    pc = "play" =>
        \A w \in BOOLEAN :
            /\ \A res \in {move_x(tilemap, x, y, x_remainder, 0)} :
                  /\ res.px = x /\ res.py = y /\ res.rem = x_remainder
                  /\ callbacks(res.hit, w) = 0
            /\ \A res \in {move_y(tilemap, x, y, y_remainder, 0)} :
                  /\ res.px = x /\ res.py = y /\ res.rem = y_remainder
                  /\ callbacks(res.hit, w) = 0

\* an actor stands against a wall with half a pixel stored towards it, the
\* state in which a rounding of ties away from zero would move it.
C8_Witness ==
    /\ op = "move_x"
    /\ ~hit_x
    /\ 2 * x_remainder = Scale
    /\ Overlaps(tilemap, x + 1, y)

\* C9 (gravity tiers): an apply_gravity() call adds 0.6 * 0.7 * GRAVITY to vy
\* when vy < 0 and the jump key is held, 0.7 * GRAVITY when vy < 0 and the key
\* is not held, GRAVITY when vy >= 0 whatever the key; nothing else changes.
C9_GravityTiers ==
    [][op' = "apply_gravity" =>
          /\ vy < 0 /\ key_up' => 100 * (vy' - vy) = 6 * 7 * GRAVITY
          /\ vy < 0 /\ ~key_up' => 10 * (vy' - vy) = 7 * GRAVITY
          /\ vy >= 0 => vy' - vy = GRAVITY
          /\ UNCHANGED <<tilemap, x, y, x_remainder, y_remainder, vx>>]_vars

\* gravity has just been applied to a rising player holding the jump key.
C9_Witness ==
    /\ op = "apply_gravity"
    /\ key_up
    /\ 100 * (vy + JUMP_POWER) = 6 * 7 * GRAVITY

\* the cells of a grid that hold the spawn marker.
SpawnCells(t) == { c \in Cells : t[c] = PLAYER_TILE }

\* C10 (spawn scan): when the loaded grid holds exactly one spawn marker, at
\* column c and row r, initialising the game puts the player at
\* (c * TILE_SIZE, r * TILE_SIZE), empties that cell, leaves no marker in the
\* grid and changes no other cell.
C10_SpawnScan ==
    [][(op' = "scan_map" /\ Cardinality(SpawnCells(tilemap)) = 1) =>
          \A c \in SpawnCells(tilemap) :
              /\ x' = c[1] * TILE_SIZE
              /\ y' = c[2] * TILE_SIZE
              /\ tilemap'[c] = EMPTY_TILE
              /\ SpawnCells(tilemap') = {}
              /\ \A d \in Cells \ {c} : tilemap'[d] = tilemap[d]]_vars

\* the game has been initialised on a grid whose marker was at column 3,
\* row 2: the player stands at (24, 16) and the cell is empty.
C10_Witness ==
    /\ op = "scan_map"
    /\ x = 24
    /\ y = 16
    /\ tilemap[<<3, 2>>] = EMPTY_TILE
    /\ \A c \in Interior \ {<<3, 2>>} : tilemap[c] \in WALL_TILES

\* whether the pixel (px, py) belongs to a solid tile.
SolidPixel(t, px, py) ==
    \E c \in Cells :
        /\ t[c] \in WALL_TILES
        /\ px \in (c[1] * TILE_SIZE) .. (c[1] * TILE_SIZE + TILE_SIZE - 1)
        /\ py \in (c[2] * TILE_SIZE) .. (c[2] * TILE_SIZE + TILE_SIZE - 1)

\* whether some pixel of the tile-sized box at (bx, by) belongs to a solid tile.
BoxHasSolidPixel(t, bx, by) ==
    \E i \in 0 .. (TILE_SIZE - 1), j \in 0 .. (TILE_SIZE - 1) : SolidPixel(t, bx + i, by + j)

\* whether a cell in the inclusive range of columns and rows spanned by the
\* box at (bx, by) is solid.
SpanHasSolidCell(t, bx, by) ==
    \E c \in Cells :
        /\ bx \div TILE_SIZE <= c[1] /\ c[1] <= (bx + TILE_SIZE - 1) \div TILE_SIZE
        /\ by \div TILE_SIZE <= c[2] /\ c[2] <= (by + TILE_SIZE - 1) \div TILE_SIZE
        /\ t[c] \in WALL_TILES

\* C11 (collision probe correctness): check_collision(x, y) returns true
\* exactly when a pixel of the box at (x, y) lies inside a solid tile, that
\* is when a cell of the spanned range is solid; a tile-aligned box examines
\* the one cell it lies on; the call changes nothing of the actor or the map.
C11_ProbeCorrect ==
    [][op' = "check_collision" =>
          /\ probe' <=> BoxHasSolidPixel(tilemap, x, y)
          /\ probe' <=> SpanHasSolidCell(tilemap, x, y)
          /\ (x % TILE_SIZE = 0 /\ y % TILE_SIZE = 0)
                => (probe' <=> tilemap[<<x \div TILE_SIZE, y \div TILE_SIZE>>] \in WALL_TILES)
          /\ UNCHANGED <<tilemap, x, y, x_remainder, y_remainder, vx, vy>>]_vars

\* a tile-aligned actor flush against the wall on its right and the floor
\* under it has been probed and not reported as colliding.
C11_Witness ==
    /\ op = "check_collision"
    /\ ~probe
    /\ x % TILE_SIZE = 0
    /\ y % TILE_SIZE = 0
    /\ BoxHasSolidPixel(tilemap, x + 1, y)
    /\ BoxHasSolidPixel(tilemap, x, y + 1)

\* an actor built inside a wall has been probed and reported as colliding.
C11_WitnessInside ==
    /\ op = "check_collision"
    /\ probe
    /\ x % TILE_SIZE # 0

\* C12 (vertical collision resolved before gravity): in every frame in which
\* move_y collided and no jump took effect, vy was 0 when move_y returned
\* and is exactly GRAVITY at the end of the frame.
C12_CollisionBeforeGravity ==
    (op = "update" /\ hit_y /\ ~jumped) => (vy_moved = 0 /\ vy = GRAVITY)

\* move_y has just been stopped by the floor under the player, the jump key
\* held, five frames or more into the game.
C12_Witness ==
    /\ op = "update"
    /\ hit_y
    /\ ~jumped
    /\ key_up
    /\ vy = GRAVITY
    /\ Overlaps(tilemap, x, y + 1)
    /\ frame >= 5

\* a rising player has just hit a ceiling.
C12_WitnessCeiling ==
    /\ op = "update"
    /\ hit_y
    /\ ~jumped
    /\ vy = GRAVITY
    /\ Overlaps(tilemap, x, y - 1)
    /\ ~Overlaps(tilemap, x, y + 1)

\* C13 (horizontal velocity is instantaneous): at the end of every frame vx
\* is (right held) - (left held): one of -1, 0, 1, and 0 when both keys or
\* neither are held, whatever vx was and whether move_x collided.
C13_VxInstant ==
    op = "update" =>
        /\ vx \in {-Scale, 0, Scale}
        /\ (key_right /\ ~key_left) => vx = Scale
        /\ (key_left /\ ~key_right) => vx = -Scale
        /\ (key_left <=> key_right) => vx = 0

\* move_x has just collided and vx is not 0: the key is still held against
\* the wall.
C13_Witness ==
    /\ op = "update"
    /\ hit_x
    /\ cb >= 1
    /\ vx = Scale
    /\ Overlaps(tilemap, x + 1, y)

\* what C14 says of the pixels a recorded call travelled: never against the
\* step, never more than the step, fewer only if the call collided.
C14_Travel(l, hit) ==
    /\ l.went * l.step >= 0
    /\ Abs(l.went) <= Abs(l.step)
    /\ Abs(l.went) < Abs(l.step) => hit

\* C14 (axis separation): a move_x call changes only x and x_remainder, a
\* move_y call only y and y_remainder; the position on the moved axis
\* changes by a whole number of pixels in the direction of
\* step = round(old remainder + amount), at most |step| of them, and fewer
\* than |step| only if the call collided.
C14_AxisSeparation ==
    [][/\ op' = "move_x" =>
             /\ UNCHANGED <<y, y_remainder, tilemap, vx, vy>>
             /\ last'.acc - x_remainder \in StepAmounts
             /\ last'.step = Round(last'.acc)
             /\ x' - x = last'.went
             /\ C14_Travel(last', hit_x')
       /\ op' = "move_y" =>
             /\ UNCHANGED <<x, x_remainder, tilemap, vx, vy>>
             /\ last'.acc - y_remainder \in StepAmounts
             /\ last'.step = Round(last'.acc)
             /\ y' - y = last'.went
             /\ C14_Travel(last', hit_y')]_vars

\* a move_y call of three pixels upwards has just been stopped by the
\* ceiling after two.
C14_Witness ==
    /\ op = "move_y"
    /\ hit_y
    /\ last.step = -3
    /\ last.went = -2

\* C15 (discarded motion on collision): after a call that a collision halted
\* short of its step, the remainder is the accumulated remainder less the
\* whole step, as if every pixel had been travelled; being at most half a
\* pixel, it holds none of the untravelled pixels.
C15_Discarded ==
    /\ (op = "move_x" /\ hit_x) =>
            /\ Abs(last.went) < Abs(last.step)
            /\ x_remainder = last.acc - last.step * Scale
            /\ 2 * Abs(x_remainder) <= Scale
    /\ (op = "move_y" /\ hit_y) =>
            /\ Abs(last.went) < Abs(last.step)
            /\ y_remainder = last.acc - last.step * Scale
            /\ 2 * Abs(y_remainder) <= Scale

\* a move_x call of three pixels has just been stopped by a wall after one:
\* two pixels are gone.
C15_Witness ==
    /\ op = "move_x"
    /\ hit_x
    /\ last.step = 3
    /\ last.went = 1
    /\ x_remainder = 0

\* C18 (tighter remainder bound): after every move call both remainders lie
\* in [-0.5, 0.5], and an accumulated remainder of exactly 0.5 or -0.5 is
\* kept as it is: the call moves nothing.
C18_HalfPixelBound ==
    /\ 2 * Abs(x_remainder) <= Scale
    /\ 2 * Abs(y_remainder) <= Scale
    /\ (op = "move_x" /\ 2 * Abs(last.acc) = Scale) =>
            (last.step = 0 /\ last.went = 0 /\ ~hit_x /\ x_remainder = last.acc)
    /\ (op = "move_y" /\ 2 * Abs(last.acc) = Scale) =>
            (last.step = 0 /\ last.went = 0 /\ ~hit_y /\ y_remainder = last.acc)

\* a move_x call has just accumulated exactly 0.5 with no wall to the right
\* of the actor: nothing moved, the remainder is 0.5.
C18_Witness ==
    /\ op = "move_x"
    /\ 2 * last.acc = Scale
    /\ 2 * x_remainder = Scale
    /\ x % TILE_SIZE = 0
    /\ y % TILE_SIZE = 0
    /\ y_remainder = 0
    /\ ~Overlaps(tilemap, x + 1, y)

\* ---- C16: variable jump height ----

\* the player's state a frame of Player.update leaves, the jump key held
\* before the frame and held or not during it.
Frame(t, s, up) ==
    CHOOSE r \in { update(t, s.px, s.py, s.xr, s.yr, s.vx, s.vy, TRUE, FALSE, FALSE, up) } :
        TRUE

\* the n frames after a take-off, the jump key held for the first k of them
\* and released from then on: the least y reached, and whether the player
\* met a wall while rising.
RECURSIVE JumpPeak(_, _, _, _)
JumpPeak(t, s, k, n) ==
    IF n = 0 THEN [peak |-> s.py, bumped |-> FALSE]
    ELSE CHOOSE res \in
            { [peak |-> Min(s.py, rest.peak),
               bumped |-> rest.bumped \/ (nxt.hit_y /\ s.vy < 0)] :
                  rest \in { JumpPeak(t, nxt, k - 1, n - 1) :
                                nxt \in { Frame(t, s, k > 0) } },
                  nxt \in { Frame(t, s, k > 0) } } : TRUE

\* the player as the current state has it.
Here == [px |-> x, py |-> y, xr |-> x_remainder, yr |-> y_remainder, vx |-> vx, vy |-> vy]

\* C16: of two jumps that take off from the same state with no wall to meet
\* above, the one with the jump key held throughout peaks at least as high as
\* the one that lets go of it after k frames, whatever k, and strictly higher
\* than the one that lets go on the frame after the take-off.
C16_VariableJump ==
    (op = "update" /\ jumped) =>
        \A held \in { JumpPeak(tilemap, Here, MaxRise, MaxRise) } :
            ~held.bumped =>
                /\ \A k \in 0 .. MaxRise - 1 :
                        held.peak <= JumpPeak(tilemap, Here, k, MaxRise).peak
                /\ held.peak < JumpPeak(tilemap, Here, 0, MaxRise).peak

\* a take-off from the floor of the shaft: held, the jump peaks 25 pixels up
\* without meeting the ceiling; let go at once, 15 pixels up.
C16_Witness ==
    /\ op = "update"
    /\ jumped
    /\ check_collision(tilemap, x, y + 1)
    /\ y_remainder = 0
    /\ JumpPeak(tilemap, Here, MaxRise, MaxRise) = [peak |-> y - 25, bumped |-> FALSE]
    /\ JumpPeak(tilemap, Here, 0, MaxRise).peak = y - 15

\* ---- C17: sub-pixel motion is never starved ----

\* a sequence of one repeated amount is under way and has not moved the actor.
C17_Waiting == run.on /\ run.amt # 0 /\ RunPos = run.pos

\* the sequence is over, a wall in its way, or the actor stands one pixel
\* from where the sequence began, on the side the amount points to.
C17_Stepped == ~run.on \/ RunPos = run.pos + Sgn(run.amt)

\* a call whose step rounds to 0 moves nothing, fires no callback and stores
\* the accumulated remainder.
C17_ZeroStep ==
    /\ (op' = "move_x" /\ last'.step = 0) =>
            /\ x' = x /\ y' = y /\ cb' = 0 /\ ~hit_x'
            /\ x_remainder' = last'.acc
            /\ run.unit # TinyUnit => last'.acc = x_remainder + run'.amt
    /\ (op' = "move_y" /\ last'.step = 0) =>
            /\ x' = x /\ y' = y /\ cb' = 0 /\ ~hit_y'
            /\ y_remainder' = last'.acc
            /\ run.unit # TinyUnit => last'.acc = y_remainder + run'.amt

\* C17 as stated: repeating a move call of any fixed non-zero amount below
\* one pixel, however small, from any remainder, at last moves the actor one
\* pixel the way the amount points unless a wall is in the way; a call whose
\* step rounds to 0 moves nothing, fires no callback and keeps the
\* accumulated remainder.
C17_Original ==
    /\ C17_Waiting ~> C17_Stepped
    /\ [][C17_ZeroStep]_vars

\* C17 (sub-pixel motion never starved), amended: the same for the amounts
\* the addition of game.py:82 and 116 does not absorb.
C17_NeverStarved ==
    /\ (C17_Waiting /\ run.unit # TinyUnit) ~> C17_Stepped
    /\ [][C17_ZeroStep]_vars

\* the fifth call of 0.2 pixel has just moved the actor the first pixel: the
\* sequence began with a remainder of -0.4 pixel.
C17_Witness ==
    /\ run.on
    /\ 5 * Abs(run.amt) = Scale
    /\ run.len = 5
    /\ 5 * run.rem = -2 * Sgn(run.amt) * Scale
    /\ last.step = Sgn(run.amt)
    /\ RunPos = run.pos + Sgn(run.amt)

\* 2^-56 pixel has been asked for with a quarter pixel in the remainder, and
\* nothing has changed.
C17_WitnessAbsorbed ==
    /\ run.on
    /\ run.unit = TinyUnit
    /\ 4 * RunRem = Scale
    /\ RunRem = run.rem
    /\ RunPos = run.pos

\* ---- C19: landing and rest ----

\* the height at which a box falling from (px, py) comes to lie on a wall: the
\* first at or below py with a wall one pixel further down.
LandY(t, px, py) ==
    CHOOSE l \in py .. MapH * TILE_SIZE :
        /\ check_collision(t, px, l + 1)
        /\ \A m \in py .. l - 1 : ~check_collision(t, px, m + 1)

\* more than a fall inside the window builds up: a pixel a frame for every
\* row of the window.
MaxFall == MapH * Scale

\* C19: a player built clear of the walls and given no input comes to lie
\* flush on the floor below where it was built, never moves sideways on the
\* way, never moves at all once it lies there, and vy stays between 0 and
\* MaxFall, being GRAVITY at the end of every frame with a vertical collision.
C19_LandingAndRest ==
    /\ <>[](y = LandY(tilemap, x, run.pos))
    /\ [][x' = x /\ y' >= y /\ (y = LandY(tilemap, x, run.pos) => y' = y)]_vars
    /\ [](vy >= 0 /\ vy <= MaxFall /\ (hit_y => vy = GRAVITY))

\* the player has just landed a whole tile or more below where it was built.
C19_Witness ==
    /\ op = "update"
    /\ hit_y
    /\ y >= run.pos + TILE_SIZE
    /\ y = LandY(tilemap, x, run.pos)
    /\ vy = GRAVITY

====
